---- MODULE Spec2Model ----
(***************************************************************************)
(* todo-expander: the per-file processing pipeline (src/process.ts), the   *)
(* TODO detector (src/todos.ts), the rewrite engine (src/rewrite.ts), the  *)
(* completion client (src/prompt.ts), the cache store (src/cache.ts) and   *)
(* the CLI loop (bin/todo-expand.ts).                                      *)
(*                                                                         *)
(* Text is modelled at token level: a line is a sequence of tokens (the    *)
(* strings the regular expressions of the source distinguish), a text is   *)
(* a non-empty sequence of lines (the result of split("\n")).  Line        *)
(* indices of a TodoMatch are zero-based as in the source.                 *)
(***************************************************************************)
EXTENDS Integers, Sequences, FiniteSets, TLC

\* ------------------------------------------------------------------ bounds
MaxLines == 3
MaxParts == 3
MaxRetries == 2
MaxRuns == 2

\* ------------------------------------------------------------ text helpers
Min(a, b) == IF a < b THEN a ELSE b
Max(a, b) == IF a > b THEN a ELSE b

\* JS Array.prototype.slice(from, to) on a 1-based TLA+ sequence: the
\* zero-based half-open range [from, to), clamped to the array.
Slice(s, from, to) ==
  LET f == Min(Max(from, 0), Len(s))
      t == Min(Max(to, 0), Len(s))
  IN IF f >= t THEN <<>> ELSE SubSeq(s, f + 1, t)

IsWs(tok) == tok = " "
IsBlankLine(ln) == \A k \in 1..Len(ln) : IsWs(ln[k])

\* First index >= k of ln holding a non-whitespace token (Len + 1 if none).
RECURSIVE SkipWs(_, _)
SkipWs(ln, k) ==
  IF k > Len(ln) THEN k
  ELSE IF IsWs(ln[k]) THEN SkipWs(ln, k + 1) ELSE k

\* Last index <= k of ln holding a non-whitespace token (0 if none).
RECURSIVE SkipWsBack(_, _)
SkipWsBack(ln, k) ==
  IF k < 1 THEN 0
  ELSE IF IsWs(ln[k]) THEN SkipWsBack(ln, k - 1) ELSE k

TrimLine(ln) ==
  LET a == SkipWs(ln, 1)
      b == SkipWsBack(ln, Len(ln))
  IN IF a > b THEN <<>> ELSE SubSeq(ln, a, b)

TrimLineStart(ln) ==
  LET a == SkipWs(ln, 1) IN IF a > Len(ln) THEN <<>> ELSE SubSeq(ln, a, Len(ln))

TrimLineEnd(ln) ==
  LET b == SkipWsBack(ln, Len(ln)) IN IF b < 1 THEN <<>> ELSE SubSeq(ln, 1, b)

RECURSIVE FirstInk(_, _)
FirstInk(txt, k) ==
  IF k > Len(txt) THEN k
  ELSE IF IsBlankLine(txt[k]) THEN FirstInk(txt, k + 1) ELSE k

RECURSIVE LastInk(_, _)
LastInk(txt, k) ==
  IF k < 1 THEN 0
  ELSE IF IsBlankLine(txt[k]) THEN LastInk(txt, k - 1) ELSE k

\* String.prototype.trim() of the text joined with "\n": leading and
\* trailing whitespace, line breaks included, is removed.
TrimText(txt) ==
  LET a == FirstInk(txt, 1)
      b == LastInk(txt, Len(txt))
  IN IF a > b THEN << <<>> >>
     ELSE IF a = b THEN << TrimLine(txt[a]) >>
     ELSE << TrimLineStart(txt[a]) >> \o SubSeq(txt, a + 1, b - 1)
          \o << TrimLineEnd(txt[b]) >>

\* The empty string: the one text that is falsy in a JS condition.
EmptyText == << <<>> >>

\* --------------------------------------------------------------- todos.ts
IsTodoWord(tok) == tok \in {"TODO", "todo", "Todo"}
IsDelim(tok) == tok \in {":", " "}

\* TODO_SINGLE = /(^|\s)(\/\/|#)\s*TODO[:\s](.*)$/i matching with its
\* comment marker at token k.
SingleAt(ln, k) ==
  /\ ln[k] \in {"//", "#"}
  /\ (k = 1 \/ IsWs(ln[k - 1]))
  /\ LET j == SkipWs(ln, k + 1)
     IN /\ j + 1 <= Len(ln)
        /\ IsTodoWord(ln[j])
        /\ IsDelim(ln[j + 1])

TODO_SINGLE(ln) == \E k \in 1..Len(ln) : SingleAt(ln, k)

\* m[2] of the leftmost match, mapped as in `m[2] === '#' ? '#' : '//'`.
SingleMarker(ln) ==
  LET k == CHOOSE i \in 1..Len(ln) :
             SingleAt(ln, i) /\ \A h \in 1..(i - 1) : ~SingleAt(ln, h)
  IN IF ln[k] = "#" THEN "#" ELSE "//"

\* TODO_BLOCK_START = /\/\*\s*TODO[:\s]/i
TODO_BLOCK_START(ln) ==
  \E k \in 1..Len(ln) :
    /\ ln[k] = "/*"
    /\ LET j == SkipWs(ln, k + 1)
       IN /\ j + 1 <= Len(ln)
          /\ IsTodoWord(ln[j])
          /\ IsDelim(ln[j + 1])

\* /\*\//.test(line)
BlockClose(ln) == \E k \in 1..Len(ln) : ln[k] = "*/"

\* The inner while loop: first index >= i (1-based) of a line holding the
\* closing marker, Len + 1 when there is none.
RECURSIVE CloseFrom(_, _)
CloseFrom(lines, i) ==
  IF i > Len(lines) THEN i
  ELSE IF BlockClose(lines[i]) THEN i ELSE CloseFrom(lines, i + 1)

StructuredWords == {"AI TASK:", "Context", "Goal", "Steps", "Constraints", "Acceptance"}

\* isStructured that looks at the first line of the comment only.
isStructured_FirstLine(raw) ==
  \E k \in 1..Len(raw[1]) : raw[1][k] \in StructuredWords

isStructured(raw) ==
  \E i \in 1..Len(raw) : \E k \in 1..Len(raw[i]) : raw[i][k] \in StructuredWords

RECURSIVE SingleScan(_, _)
SingleScan(lines, i) ==
  IF i > Len(lines) THEN <<>>
  ELSE IF TODO_SINGLE(lines[i])
       THEN << [start |-> i - 1, end |-> i - 1, raw |-> << lines[i] >>,
                style |-> "line", marker |-> SingleMarker(lines[i])] >>
            \o SingleScan(lines, i + 1)
       ELSE SingleScan(lines, i + 1)

\* BlockScan whose blocks end on the line before the closing marker.
RECURSIVE BlockScan_BeforeClose(_, _)
BlockScan_BeforeClose(lines, i) ==
  IF i > Len(lines) THEN <<>>
  ELSE IF TODO_BLOCK_START(lines[i])
       THEN LET e == CloseFrom(lines, i)
                end == Max(i, Min(e - 1, Len(lines)))
            IN << [start |-> i - 1, end |-> end - 1, raw |-> SubSeq(lines, i, end),
                   style |-> "block", marker |-> "/*"] >>
               \o BlockScan_BeforeClose(lines, e + 1)
       ELSE BlockScan_BeforeClose(lines, i + 1)

RECURSIVE BlockScan(_, _)
BlockScan(lines, i) ==
  IF i > Len(lines) THEN <<>>
  ELSE IF TODO_BLOCK_START(lines[i])
       THEN LET e == CloseFrom(lines, i)
                end == Min(e, Len(lines))
            IN << [start |-> i - 1, end |-> end - 1, raw |-> SubSeq(lines, i, end),
                   style |-> "block", marker |-> "/*"] >>
               \o BlockScan(lines, e + 1)
       ELSE BlockScan(lines, i + 1)

\* detectTodos that scans for block TODOs before single-line TODOs.
detectTodos_BlocksFirst(content) ==
  LET todos == BlockScan(content, 1) \o SingleScan(content, 1)
      keep(t) == ~isStructured(t.raw)
  IN SelectSeq(todos, keep)

detectTodos(content) ==
  LET todos == SingleScan(content, 1) \o BlockScan(content, 1)
      keep(t) == ~isStructured(t.raw)
  IN SelectSeq(todos, keep)

\* ------------------------------------------------------------- rewrite.ts
StartsWithTok(ln, tok) == Len(ln) >= 1 /\ ln[1] = tok

\* applyRewrites whose `after` starts at the last line of the match.
applyRewrites_KeepsEnd(content, todo, newComment) ==
  LET lines == content
      prefixed == [i \in 1..Len(newComment) |->
                     IF StartsWithTok(TrimLine(newComment[i]), todo.marker)
                     THEN newComment[i]
                     ELSE << todo.marker, " " >> \o newComment[i]]
      trimmed == TrimText(newComment)
      normalized ==
        IF todo.style = "line" THEN prefixed
        ELSE IF todo.style = "block" /\ ~StartsWithTok(trimmed[1], "/*")
             THEN << << "/*" >> >> \o trimmed \o << << "*/" >> >>
             ELSE newComment
      before == Slice(lines, 0, todo.start)
      after == Slice(lines, todo.end, Len(lines))
  IN before \o normalized \o after

\* applyRewrites that wraps every new comment of a block-style match.
applyRewrites_WrapAlways(content, todo, newComment) ==
  LET lines == content
      prefixed == [i \in 1..Len(newComment) |->
                     IF StartsWithTok(TrimLine(newComment[i]), todo.marker)
                     THEN newComment[i]
                     ELSE << todo.marker, " " >> \o newComment[i]]
      trimmed == TrimText(newComment)
      normalized ==
        IF todo.style = "line" THEN prefixed
        ELSE << << "/*" >> >> \o trimmed \o << << "*/" >> >>
      before == Slice(lines, 0, todo.start)
      after == Slice(lines, todo.end + 1, Len(lines))
  IN before \o normalized \o after

\* applyRewrites that prefixes every line of the new comment.
applyRewrites_PrefixAll(content, todo, newComment) ==
  LET lines == content
      prefixed == [i \in 1..Len(newComment) |->
                     << todo.marker, " " >> \o newComment[i]]
      trimmed == TrimText(newComment)
      normalized ==
        IF todo.style = "line" THEN prefixed
        ELSE IF todo.style = "block" /\ ~StartsWithTok(trimmed[1], "/*")
             THEN << << "/*" >> >> \o trimmed \o << << "*/" >> >>
             ELSE newComment
      before == Slice(lines, 0, todo.start)
      after == Slice(lines, todo.end + 1, Len(lines))
  IN before \o normalized \o after

applyRewrites(content, todo, newComment) ==
  LET lines == content
      prefixed == [i \in 1..Len(newComment) |->
                     IF StartsWithTok(TrimLine(newComment[i]), todo.marker)
                     THEN newComment[i]
                     ELSE << todo.marker, " " >> \o newComment[i]]
      trimmed == TrimText(newComment)
      normalized ==
        IF todo.style = "line" THEN prefixed
        ELSE IF todo.style = "block" /\ ~StartsWithTok(trimmed[1], "/*")
             THEN << << "/*" >> >> \o trimmed \o << << "*/" >> >>
             ELSE newComment
      before == Slice(lines, 0, todo.start)
      after == Slice(lines, todo.end + 1, Len(lines))
  IN before \o normalized \o after

\* ------------------------------------------------------------- process.ts
\* [...todos].sort((a, b) => b.start - a.start): descending by start, stable.
RECURSIVE InsertDesc(_, _)
InsertDesc(t, s) ==
  IF s = <<>> THEN << t >>
  ELSE IF s[1].start >= t.start THEN << s[1] >> \o InsertDesc(t, Tail(s))
       ELSE << t >> \o s

RECURSIVE SortDesc(_)
SortDesc(todos) ==
  IF todos = <<>> THEN <<>>
  ELSE InsertDesc(todos[Len(todos)], SortDesc(SubSeq(todos, 1, Len(todos) - 1)))

extractContext(content, todo, lines) ==
  LET arr == content
      start == Max(0, todo.start - lines)
      end == Min(Len(arr), todo.end + lines + 1)
  IN Slice(arr, start, end)

\* Cache keys.  fnv1aHex is taken to be injective on the texts of the model,
\* so a key is represented by the string that is hashed.
cacheKey(path, raw) == << "f", path, raw >>
todoKey(raw) == << "t", "", raw >>

EmptyMap == [k \in {} |-> EmptyText]
Put(m, k, v) == [x \in (DOMAIN m) \cup {k} |-> IF x = k THEN v ELSE m[x]]
Has(m, k) == k \in DOMAIN m

\* A JS value is truthy here when it is defined and not the empty string.
Truthy(m, k) == Has(m, k) /\ m[k] # EmptyText

\* out.split("\n---\n") on the lines of out: a line `---` is a separator
\* when a line break precedes it that no earlier separator consumed and a
\* line break follows it.
SepLine == << "---" >>

RECURSIVE SplitFrom(_, _, _)
SplitFrom(lines, k, cur) ==
  IF k > Len(lines) THEN << cur >>
  ELSE IF lines[k] = SepLine /\ k < Len(lines) /\ cur # <<>>
       THEN << cur >> \o SplitFrom(lines, k + 1, <<>>)
       ELSE SplitFrom(lines, k + 1, Append(cur, lines[k]))

SplitParts(out) == SplitFrom(out, 1, <<>>)

langFromPath(p) == "ts"

renderPromptBatch(filePath, pending, contexts) ==
  [filePath |-> filePath, language |-> langFromPath(filePath),
   todos |-> [n \in 1..Len(pending) |->
                [todoComment |-> pending[n].raw, codeContext |-> contexts[n]]]]

\* cache.ts
\* The text of a JSON object is modelled as the sequence of its members,
\* each a << key, value >> pair; a member without a value is what a
\* truncated or otherwise malformed text holds.
RECURSIVE JSONstringify(_)
JSONstringify(data) ==
  IF DOMAIN data = {} THEN <<>>
  ELSE LET k == CHOOSE x \in DOMAIN data : TRUE
       IN << << k, data[k] >> >>
          \o JSONstringify([x \in (DOMAIN data) \ {k} |-> data[x]])

\* JSON.parse throws a SyntaxError on a text that is not valid JSON.
JSONvalid(jsonText) == \A n \in 1..Len(jsonText) : Len(jsonText[n]) = 2

\* A member that repeats a key replaces the earlier one.
RECURSIVE JSONparse(_)
JSONparse(jsonText) ==
  IF jsonText = <<>> THEN EmptyMap
  ELSE LET m == jsonText[Len(jsonText)]
       IN Put(JSONparse(SubSeq(jsonText, 1, Len(jsonText) - 1)), m[1], m[2])

NoFile == [exists |-> FALSE, readable |-> FALSE, text |-> <<>>]

\* readCache that takes whatever members it can read from the text.
readCache_Lenient(file) ==
  IF file.exists /\ file.readable
  THEN JSONparse(SelectSeq(file.text, LAMBDA m : Len(m) = 2))
  ELSE EmptyMap

readCache(file) ==
  IF file.exists /\ file.readable /\ JSONvalid(file.text)
  THEN JSONparse(file.text)
  ELSE EmptyMap

\* Writing a file creates it readable; one that exists keeps its permissions.
writeCache(file, data) ==
  [exists |-> TRUE,
   readable |-> IF file.exists THEN file.readable ELSE TRUE,
   text |-> JSONstringify(data)]

\* -------------------------------------------------------------- config.ts
\* A ConfigFile is a partial object. Four of its settings are modelled, one
\* of each kind loadConfig treats differently: model (a string, resolved
\* with ||, with an environment variable), style (validated, with an
\* environment variable), cache (resolved with ??) and verboseLogs (derived
\* from style when nothing sets it). A setting is a set: empty when the
\* object does not define it, else holding its value.
NoConfig == [model |-> {}, style |-> {}, cache |-> {}, verboseLogs |-> {}]
Value(s) == CHOOSE v \in s : TRUE

\* One step of the loop of mergeConfigs: the defined settings of config
\* replace those of result.
Assign(res, config) ==
  [k \in DOMAIN res |-> IF config[k] # {} THEN config[k] ELSE res[k]]

RECURSIVE mergeConfigs(_)
mergeConfigs(configs) ==
  IF configs = <<>> THEN NoConfig
  ELSE Assign(mergeConfigs(SubSeq(configs, 1, Len(configs) - 1)), configs[Len(configs)])

defaults == [model |-> "gpt-4o-mini", style |-> "succinct", cache |-> TRUE,
             verboseLogs |-> FALSE]

\* A string is truthy when it is not empty; the strings of the model hold no
\* blank other than the empty one, so trim() changes none of them.
TruthyStr(s) == s # {} /\ Value(s) # ""

\* loadConfig that merges the environment below the configuration files.
loadConfig_EnvBelowFiles(in) ==
  LET globalConfig == IF ~in.configPath THEN in.global ELSE NoConfig
      projectConfig == IF ~in.configPath THEN in.project ELSE NoConfig
      overrideConfig == IF in.configPath THEN in.override ELSE NoConfig
      envConfig ==
        [NoConfig EXCEPT
           !.model = IF TruthyStr(in.env.model) THEN in.env.model ELSE {},
           !.style = IF TruthyStr(in.env.style)
                        /\ Value(in.env.style) \in {"succinct", "verbose"}
                     THEN in.env.style ELSE {}]
      fileConfig == mergeConfigs(<< globalConfig, projectConfig, overrideConfig >>)
      mergedConfig == mergeConfigs(<< envConfig, fileConfig >>)
      cliConfig ==
        [NoConfig EXCEPT
           !.style = IF TruthyStr(in.cli.style) THEN in.cli.style ELSE {},
           !.model = in.cli.model,
           !.cache = in.cli.cache,
           !.verboseLogs = in.cli.verboseLogs]
      finalConfig == mergeConfigs(<< mergedConfig, cliConfig >>)
      styleUsed == IF TruthyStr(finalConfig.style) THEN Value(finalConfig.style)
                   ELSE defaults.style
      verboseLogsResolved ==
        IF finalConfig.verboseLogs # {} THEN Value(finalConfig.verboseLogs)
        ELSE IF styleUsed = "verbose" THEN TRUE ELSE defaults.verboseLogs
  IN [model |-> IF TruthyStr(finalConfig.model) THEN Value(finalConfig.model)
                ELSE defaults.model,
      style |-> styleUsed,
      cache |-> IF finalConfig.cache # {} THEN Value(finalConfig.cache)
                ELSE defaults.cache,
      verboseLogs |-> verboseLogsResolved]

loadConfig(in) ==
  LET globalConfig == IF ~in.configPath THEN in.global ELSE NoConfig
      projectConfig == IF ~in.configPath THEN in.project ELSE NoConfig
      overrideConfig == IF in.configPath THEN in.override ELSE NoConfig
      envConfig ==
        [NoConfig EXCEPT
           !.model = IF TruthyStr(in.env.model) THEN in.env.model ELSE {},
           !.style = IF TruthyStr(in.env.style)
                        /\ Value(in.env.style) \in {"succinct", "verbose"}
                     THEN in.env.style ELSE {}]
      fileConfig == mergeConfigs(<< globalConfig, projectConfig, overrideConfig >>)
      mergedConfig == mergeConfigs(<< fileConfig, envConfig >>)
      cliConfig ==
        [NoConfig EXCEPT
           !.style = IF TruthyStr(in.cli.style) THEN in.cli.style ELSE {},
           !.model = in.cli.model,
           !.cache = in.cli.cache,
           !.verboseLogs = in.cli.verboseLogs]
      finalConfig == mergeConfigs(<< mergedConfig, cliConfig >>)
      styleUsed == IF TruthyStr(finalConfig.style) THEN Value(finalConfig.style)
                   ELSE defaults.style
      verboseLogsResolved ==
        IF finalConfig.verboseLogs # {} THEN Value(finalConfig.verboseLogs)
        ELSE IF styleUsed = "verbose" THEN TRUE ELSE defaults.verboseLogs
  IN [model |-> IF TruthyStr(finalConfig.model) THEN Value(finalConfig.model)
                ELSE defaults.model,
      style |-> styleUsed,
      cache |-> IF finalConfig.cache # {} THEN Value(finalConfig.cache)
                ELSE defaults.cache,
      verboseLogs |-> verboseLogsResolved]

\* ------------------------------------------------------------ environment
\* Lines of the source files of the model.
CodeLine == << "x" >>
TodoSlash == << "//", " ", "TODO", ":", " ", "a" >>
TodoHash == << "#", " ", "TODO", " ", "b" >>
TodoBlockOpen == << "/*", " ", "TODO", ":", " ", "c" >>
BlockEnd == << "*/" >>
LineAlphabet == {CodeLine, TodoSlash, TodoHash, TodoBlockOpen, BlockEnd}

FilesUpTo(n) == UNION {[1..m -> LineAlphabet] : m \in 1..n}
Files == FilesUpTo(MaxLines)

Paths == {"a.ts", "b.ts"}

\* Texts the completion service answers with: parts joined by `---` lines.
BriefPart == << << "Context", ":", " ", "c" >>, << "Goal", ":", " ", "g" >> >>
PartTexts == {BriefPart, EmptyText}

RECURSIVE JoinParts(_)
JoinParts(ps) ==
  IF Len(ps) = 1 THEN ps[1] ELSE ps[1] \o << SepLine >> \o JoinParts(Tail(ps))

\* A brief that differs from BriefPart in its goal.
OtherPart == << << "Context", ":", " ", "c" >>, << "Goal", ":", " ", "h" >> >>
\* The first and the last part are briefs: runLLM trims an empty part at
\* either end away together with its separator.  One more answer has two
\* briefs that differ, as the answers to two matches in different places of
\* a file do.
Replies ==
  {JoinParts(ps) : ps \in {q \in UNION {[1..n -> PartTexts] : n \in 1..MaxParts} :
                             q[1] = BriefPart /\ q[Len(q)] = BriefPart}}
  \cup {JoinParts(<< BriefPart, OtherPart >>)}

\* Outcomes of one attemptOnce call.
Statuses == {400, 408, 429, 500, 599}
\* kind: "text" (data.output_text is a non-empty string), "notext" (no text
\* field, or an empty one), "nonstring" (a truthy text field that is not a
\* string), "status" (!res.ok), "abort" (the attempt's timer aborted the
\* fetch), "neterr" (any other error caught in attemptOnce).
Outcomes ==
  {[ok |-> TRUE, kind |-> k, status |-> 200] : k \in {"text", "notext", "nonstring"}}
  \cup {[ok |-> FALSE, kind |-> "status", status |-> s] : s \in Statuses}
  \cup {[ok |-> FALSE, kind |-> k, status |-> 0] : k \in {"abort", "neterr"}}

\* null, as runLLM returns it: no text at all (a text has at least one line).
Null == <<>>
NoSvc == [set |-> FALSE, text |-> EmptyText]
NoTodo == [start |-> 0, end |-> 0, raw |-> EmptyText, style |-> "none", marker |-> ""]
NoRepl == [kind |-> "none", todo |-> NoTodo, held |-> TRUE, hadFile |-> FALSE,
           hadTodo |-> FALSE, with |-> Null, at |-> 0]
NoResult == [changed |-> 0, todosFound |-> 0]
NoPrompt == [filePath |-> "", language |-> "", todos |-> <<>>]

\* Date.now() - fileStart as the per-match loop can read it, and the
\* per-file deadlines of the model: 0 ms, and the default of loadConfig.
Elapsed == {0, 1}
DefaultPerFileTimeoutMs == 120000
Deadlines == {0, DefaultPerFileTimeoutMs}

Cfgs == [cache : BOOLEAN, format : BOOLEAN, retries : 0..MaxRetries,
         perFileTimeoutMs : Deadlines, contextLines : {1}, concurrency : {1}]

\* The invocations of the model: the defaults of loadConfig with --retries 0,
\* and that configuration with one more setting changed by a flag
\* (--no-cache, --no-format, --retries n, --file-timeout 0, --dry-run).
BaseCfg == [cache |-> TRUE, format |-> TRUE, retries |-> 0,
            perFileTimeoutMs |-> DefaultPerFileTimeoutMs, contextLines |-> 1,
            concurrency |-> 1]
\* --concurrency=4, the one invocation that asks for more than one request
\* at a time; it runs on pairs of one-line files.
PoolCfg == [BaseCfg EXCEPT !.concurrency = 4]
Differs(c) ==
  Cardinality({f \in {"cache", "format", "retries", "perFileTimeoutMs"} : c[f] # BaseCfg[f]})
Setups ==
  {su \in Cfgs \X BOOLEAN : Differs(su[1]) + (IF su[2] THEN 1 ELSE 0) <= 1}
\* The invocations that leave retries and formatting alone: the ones run on
\* every file of the model and on pairs of files. The others, whose setting
\* is read by runLLM and after the write only, run on one-line files.
PairSetups ==
  {su \in Setups : su[1].retries = BaseCfg.retries /\ su[1].format = BaseCfg.format}


VARIABLES
  disk,          \* path -> text of the file
  svc,           \* the text the completion service answers with, once known
  cacheFile,     \* .git/.todoexpand-cache.json: [exists, readable, text]
  cfg, dryRun,   \* resolved configuration of the invocation
  faults,        \* the file system may refuse a read or a write
  obj,           \* the mapping a direct call of writeCache was given
  targets,       \* the files discoverTargets found, in order
  run, fi,       \* CLI: invocations started, index into targets
  changedCount, todoCount, processed, errors,
  report,        \* this invocation's files so far: path, outcome, result
  pc,            \* position of the control flow
  content, todos, cache, elapsed,
  text, sorted, i, pending, contexts, fileKeys, todoKeys,
  loopText,      \* text when the per-match loop was left
  prompt, calls, attempt,
  log,           \* the outcomes of the attempts of the runLLM call so far
  out, batch, parts, j,
  lastRepl,      \* the replacement or visit made by the last loop step
  wrote, formatted, persisted, result,
  err,           \* what processFile threw
  done           \* path -> the last pass over it replaced every match it found

mainVars == << run, fi, changedCount, todoCount, processed, errors, report >>
envVars == << disk, svc, cacheFile, cfg, dryRun, faults, obj, targets >>
loopVars == << text, sorted, i, pending, contexts, fileKeys, todoKeys >>
llmVars == << loopText, prompt, calls, attempt, log, out, batch >>
fileVars == << content, todos, cache, elapsed >>
endVars == << wrote, formatted, persisted, result, err >>
vars == << envVars, mainVars, pc, fileVars, loopVars, llmVars, parts, j, lastRepl, endVars, done >>

Init ==
  /\ \/ /\ targets = << "a.ts" >>
        /\ disk \in {[p \in Paths |-> IF p = "a.ts" THEN f ELSE << CodeLine >>] : f \in Files}
        /\ \E su \in PairSetups : cfg = su[1] /\ dryRun = su[2]
        /\ faults = FALSE
     \/ /\ targets = << "a.ts" >>
        /\ disk \in {[p \in Paths |-> IF p = "a.ts" THEN f ELSE << CodeLine >>] :
                        f \in FilesUpTo(1)}
        /\ \E su \in Setups \ PairSetups : cfg = su[1] /\ dryRun = su[2]
        /\ faults = FALSE
     \/ /\ targets = << "a.ts", "b.ts" >>
        /\ disk \in {[p \in Paths |-> IF p = "a.ts" THEN f ELSE g] :
                        f \in FilesUpTo(1), g \in FilesUpTo(2)}
        /\ \E su \in PairSetups : cfg = su[1] /\ dryRun = su[2]
        /\ faults = FALSE
     \/ /\ targets = << "a.ts", "b.ts" >>
        /\ disk \in {[p \in Paths |-> IF p = "a.ts" THEN f ELSE g] :
                        f \in FilesUpTo(1), g \in FilesUpTo(1)}
        /\ cfg = BaseCfg /\ dryRun = FALSE
        /\ faults = TRUE
     \/ /\ targets = << "a.ts", "b.ts" >>
        /\ disk \in {[p \in Paths |-> IF p = "a.ts" THEN f ELSE g] :
                        f \in FilesUpTo(1), g \in FilesUpTo(1)}
        /\ cfg = PoolCfg /\ dryRun = FALSE
        /\ faults = FALSE
  /\ svc = NoSvc
  /\ cacheFile = NoFile
  /\ obj = EmptyMap
  /\ run = 0 /\ fi = 1
  /\ changedCount = 0 /\ todoCount = 0 /\ processed = 0 /\ errors = 0
  /\ report = <<>>
  /\ pc = "exit"
  /\ content = EmptyText /\ todos = <<>> /\ cache = EmptyMap /\ elapsed = 0
  /\ text = EmptyText /\ sorted = <<>> /\ i = 1 /\ pending = <<>>
  /\ contexts = <<>> /\ fileKeys = <<>> /\ todoKeys = <<>>
  /\ loopText = EmptyText /\ prompt = NoPrompt /\ calls = 0 /\ attempt = 0
  /\ log = <<>> /\ out = Null /\ batch = "none" /\ parts = <<>> /\ j = 1
  /\ lastRepl = NoRepl
  /\ wrote = FALSE /\ formatted = FALSE /\ persisted = FALSE
  /\ result = NoResult /\ err = "none"
  /\ done = [p \in Paths |-> FALSE]

\* The locals of processFile go out of scope when it returns or throws.
ResetLocals ==
  /\ content' = EmptyText /\ todos' = <<>> /\ cache' = EmptyMap /\ elapsed' = 0
  /\ text' = EmptyText /\ sorted' = <<>> /\ i' = 1 /\ pending' = <<>>
  /\ contexts' = <<>> /\ fileKeys' = <<>> /\ todoKeys' = <<>>
  /\ loopText' = EmptyText /\ prompt' = NoPrompt /\ calls' = 0 /\ attempt' = 0
  /\ log' = <<>> /\ out' = Null /\ batch' = "none" /\ parts' = <<>> /\ j' = 1
  /\ lastRepl' = NoRepl
  /\ wrote' = FALSE /\ formatted' = FALSE /\ persisted' = FALSE
  /\ result' = NoResult /\ err' = "none"

\* ---------------------------------------------------------------- actions
\* bin/todo-expand.ts main(): a CLI invocation starts on the target list.
StartRun ==
  /\ pc = "exit" /\ run < MaxRuns
  /\ run' = run + 1 /\ fi' = 1
  /\ changedCount' = 0 /\ todoCount' = 0 /\ processed' = 0 /\ errors' = 0
  /\ report' = <<>>
  /\ pc' = "main"
  /\ UNCHANGED << envVars, fileVars, loopVars, llmVars, parts, j, lastRepl, endVars, done >>

\* main(): the loop over the targets is exhausted, the summary is printed.
EndRun ==
  /\ pc = "main" /\ fi > Len(targets)
  /\ pc' = "exit"
  /\ UNCHANGED << envVars, mainVars, fileVars, loopVars, llmVars, parts, j, lastRepl, endVars, done >>

\* A loop head that hands out the target again while the file is in flight,
\* when more than one request at a time was asked for.
nextTarget_Pool ==
  /\ fi <= Len(targets)
  /\ pc = "main" \/ (cfg.concurrency > 1 /\ pc = "batch")

\* main(): for (const abs of targets) with the awaited call in its body: the
\* next iteration starts when the previous call has settled.
nextTarget ==
  /\ fi <= Len(targets)
  /\ pc = "main"

\* The cache file read whatever cfg.cache says.
loadCache_Always == readCache(cacheFile)

\* processFile: const cache = cfg.cache ? await readCache(cachePath) : {}
loadCache == IF cfg.cache THEN readCache(cacheFile) ELSE EmptyMap

\* processFile up to the call of rewriteTodos and the sort in it.
processFile ==
  /\ nextTarget
  /\ \/ LET c == disk[targets[fi]]
            t == detectTodos(c)
        IN /\ content' = c
           /\ todos' = t
           /\ text' = c
           /\ IF t = <<>>
              THEN /\ result' = [changed |-> 0, todosFound |-> 0]
                   /\ pc' = "return"
                   /\ UNCHANGED << cache, sorted >>
              ELSE /\ cache' = loadCache
                   /\ sorted' = SortDesc(t)
                   /\ pc' = "loop"
                   /\ UNCHANGED result
           /\ UNCHANGED err
     \/ \* Deno.readTextFile(absPath) throws
        /\ faults
        /\ pc' = "throw" /\ err' = "read"
        /\ UNCHANGED << content, todos, text, cache, sorted, result >>
  /\ UNCHANGED << envVars, mainVars, elapsed, i, pending, contexts, fileKeys, todoKeys,
                  llmVars, parts, j, lastRepl, wrote, formatted, persisted, done >>

\* Time passes while the file is in the per-match loop or about to send
\* its batch.  Elapsed times are told apart only under a deadline they can
\* pass.
Tick ==
  /\ pc \in {"loop", "batch"}
  /\ elapsed + 1 \in Elapsed
  /\ cfg.perFileTimeoutMs + 1 \in Elapsed
  /\ elapsed' = elapsed + 1
  /\ UNCHANGED << envVars, mainVars, pc, content, todos, cache, loopVars, llmVars,
                  parts, j, lastRepl, endVars, done >>

\* A per-file timeout check that never fires.
fileTimedOut_Never == FALSE

\* The per-file timeout check at the head of the loop body.
fileTimedOut == elapsed > cfg.perFileTimeoutMs

\* A lookup that reads the file-scoped key only.
cachedText_FileOnly(m, fileKey, tKey) ==
  IF Has(m, fileKey) THEN m[fileKey] ELSE Null

\* rewriteTodos: cache[fileKey] ?? cache[tKey]; Null stands for undefined.
cachedText(m, fileKey, tKey) ==
  IF Has(m, fileKey) THEN m[fileKey]
  ELSE IF Has(m, tKey) THEN m[tKey] ELSE Null

\* One iteration of the per-match loop of rewriteTodos.
rewriteTodosStep ==
  /\ pc = "loop" /\ i <= Len(sorted)
  /\ IF fileTimedOut
     THEN /\ pc' = "batch"
          /\ UNCHANGED << cache, loopVars, lastRepl >>
     ELSE LET todo == sorted[i]
              codeContext == extractContext(text, todo, cfg.contextLines)
              fileKey == cacheKey(targets[fi], todo.raw)
              tKey == todoKey(todo.raw)
              cached == IF cfg.cache THEN cachedText(cache, fileKey, tKey) ELSE Null
              hit == cached # Null /\ cached # EmptyText
              obs == [todo |-> todo,
                      held |-> Slice(text, todo.start, todo.end + 1) = todo.raw,
                      hadFile |-> cfg.cache /\ Has(cache, fileKey),
                      hadTodo |-> cfg.cache /\ Has(cache, tKey),
                      at |-> elapsed]
          IN IF hit
             THEN /\ cache' = IF ~Truthy(cache, fileKey)
                              THEN Put(cache, fileKey, cached) ELSE cache
                  /\ text' = applyRewrites(text, todo, cached)
                  /\ lastRepl' = [kind |-> "cache", with |-> cached] @@ obs
                  /\ i' = i + 1
                  /\ pc' = "loop"
                  /\ UNCHANGED << sorted, pending, contexts, fileKeys, todoKeys >>
             ELSE /\ pending' = Append(pending, todo)
                  /\ contexts' = Append(contexts, codeContext)
                  /\ fileKeys' = Append(fileKeys, fileKey)
                  /\ todoKeys' = Append(todoKeys, tKey)
                  /\ lastRepl' = [kind |-> "pending", with |-> Null] @@ obs
                  /\ i' = i + 1
                  /\ pc' = "loop"
                  /\ UNCHANGED << cache, text, sorted >>
  /\ UNCHANGED << envVars, mainVars, content, todos, elapsed, llmVars, parts, j, endVars, done >>

\* The per-match loop has visited every match.
rewriteTodosLoopEnd ==
  /\ pc = "loop" /\ i > Len(sorted)
  /\ pc' = "batch"
  /\ UNCHANGED << envVars, mainVars, fileVars, loopVars, llmVars, parts, j, lastRepl, endVars, done >>

\* rewriteTodosBatch without the test of pending.length: the completion
\* service is called for every file that has a match.
rewriteTodosBatch_Always ==
  /\ pc = "batch"
  /\ loopText' = text
  /\ prompt' = renderPromptBatch(targets[fi], pending, contexts)
  /\ calls' = calls + 1
  /\ attempt' = 1
  /\ pc' = "llm"
  /\ UNCHANGED << log, out, batch >>
  /\ UNCHANGED << envVars, mainVars, fileVars, loopVars, parts, j, lastRepl, endVars, done >>

\* if (pending.length): render the batched prompt and call runLLM.
rewriteTodosBatch ==
  /\ pc = "batch"
  /\ loopText' = text
  /\ IF pending = <<>>
     THEN /\ pc' = "persist"
          /\ UNCHANGED << prompt, calls, attempt, log, out, batch >>
     ELSE /\ prompt' = renderPromptBatch(targets[fi], pending, contexts)
          /\ calls' = calls + 1
          /\ attempt' = 1
          /\ pc' = "llm"
          /\ UNCHANGED << log, out, batch >>
  /\ UNCHANGED << envVars, mainVars, fileVars, loopVars, parts, j, lastRepl, endVars, done >>

Last(s) == s[Len(s)]

\* isRetriable that retries after every failure.
isRetriable_Any(r) == ~r.ok

\* runLLM: the failures that are retried.
isRetriable(r) ==
  \/ r.kind = "abort"
  \/ /\ r.kind = "status"
     /\ (r.status = 408 \/ r.status = 429 \/ (r.status >= 500 /\ r.status <= 599))

\* totalAttempts counting one attempt too many.
totalAttempts_OneMore == 2 + cfg.retries

\* runLLM: const totalAttempts = 1 + retries.
totalAttempts == 1 + cfg.retries

\* runLLM: one pass of the attempt loop (attemptOnce and its classification).
runLLMAttempt ==
  /\ pc = "llm"
  /\ \E o \in Outcomes, r \in Replies \cup {EmptyText} :
       /\ IF o.kind = "text"
          THEN /\ r \in Replies
               /\ svc.set => r = svc.text
               /\ svc' = [set |-> TRUE, text |-> r]
          ELSE r = EmptyText /\ UNCHANGED svc
       /\ log' = Append(log, o)
       /\ IF o.ok
          THEN IF o.kind = "nonstring"
               THEN pc' = "throw" /\ err' = "text" /\ UNCHANGED out
               ELSE /\ out' = IF o.kind = "notext" THEN Null ELSE TrimText(r)
                    /\ pc' = "split"
                    /\ UNCHANGED err
          ELSE /\ IF attempt < totalAttempts /\ isRetriable(o)
                  THEN pc' = "sleep" /\ UNCHANGED out
                  ELSE out' = Null /\ pc' = "split"
               /\ UNCHANGED err
  /\ UNCHANGED << disk, cacheFile, cfg, dryRun, faults, obj, targets, mainVars, fileVars, loopVars,
                  loopText, prompt, calls, attempt, batch, parts, j, lastRepl,
                  wrote, formatted, persisted, result, done >>

\* runLLM: the backoff sleep is over, the loop goes to its next attempt.
runLLMSleep ==
  /\ pc = "sleep"
  /\ attempt' = attempt + 1
  /\ pc' = "llm"
  /\ UNCHANGED << envVars, mainVars, fileVars, loopVars, loopText, prompt, calls, log,
                  out, batch, parts, j, lastRepl, endVars, done >>

\* rewriteTodosSplit without the part-count guard: a misaligned output is
\* applied part by part as far as it goes.
rewriteTodosSplit_Partial ==
  /\ pc = "split"
  /\ IF out # Null /\ out # EmptyText
     THEN LET ps == SplitParts(out)
          IN IF Len(ps) = Len(pending)
             THEN parts' = ps /\ batch' = "applied" /\ pc' = "apply"
             ELSE /\ parts' = [n \in 1..Len(pending) |-> ps[Min(n, Len(ps))]]
                  /\ batch' = "misaligned" /\ pc' = "apply"
     ELSE parts' = <<>> /\ batch' = "failed" /\ pc' = "persist"
  /\ j' = 1
  /\ attempt' = 0 /\ log' = <<>> /\ out' = Null
  /\ UNCHANGED << envVars, mainVars, fileVars, loopVars, loopText, prompt, calls,
                  lastRepl, endVars, done >>

\* rewriteTodosSplit that raises an error when runLLM returned no text.
rewriteTodosSplit_Throw ==
  /\ pc = "split"
  /\ IF out # Null /\ out # EmptyText
     THEN LET ps == SplitParts(out)
          IN IF Len(ps) = Len(pending)
             THEN parts' = ps /\ batch' = "applied" /\ pc' = "apply"
             ELSE parts' = <<>> /\ batch' = "misaligned" /\ pc' = "persist"
     ELSE parts' = <<>> /\ batch' = "failed" /\ pc' = "throw"
  /\ j' = 1
  /\ attempt' = 0 /\ log' = <<>> /\ out' = Null
  /\ UNCHANGED << envVars, mainVars, fileVars, loopVars, loopText, prompt, calls,
                  lastRepl, endVars, done >>

\* rewriteTodos after runLLM: split the output and compare the part count.
rewriteTodosSplit ==
  /\ pc = "split"
  /\ IF out # Null /\ out # EmptyText
     THEN LET ps == SplitParts(out)
          IN IF Len(ps) = Len(pending)
             THEN parts' = ps /\ batch' = "applied" /\ pc' = "apply"
             ELSE parts' = <<>> /\ batch' = "misaligned" /\ pc' = "persist"
     ELSE parts' = <<>> /\ batch' = "failed" /\ pc' = "persist"
  /\ j' = 1
  /\ attempt' = 0 /\ log' = <<>> /\ out' = Null
  /\ UNCHANGED << envVars, mainVars, fileVars, loopVars, loopText, prompt, calls,
                  lastRepl, endVars, done >>

\* One iteration of the loop over the aligned parts.
rewriteTodosApply ==
  /\ pc = "apply"
  /\ IF j <= Len(pending)
     THEN LET todo == pending[j]
              newComment == TrimText(parts[j])
          IN /\ cache' = IF cfg.cache
                         THEN Put(Put(cache, fileKeys[j], newComment), todoKeys[j], newComment)
                         ELSE cache
             /\ text' = applyRewrites(text, todo, newComment)
             /\ lastRepl' = [kind |-> "llm", todo |-> todo,
                             held |-> Slice(text, todo.start, todo.end + 1) = todo.raw,
                             hadFile |-> FALSE, hadTodo |-> FALSE, with |-> newComment,
                             at |-> elapsed]
             /\ j' = j + 1
             /\ pc' = "apply"
     ELSE /\ pc' = "persist"
          /\ UNCHANGED << cache, text, lastRepl, j >>
  /\ UNCHANGED << envVars, mainVars, content, todos, elapsed, sorted, i, pending,
                  contexts, fileKeys, todoKeys, llmVars, parts, endVars, done >>

\* processFilePersist that writes the cache only when the text changed.
processFilePersist_IfChanged ==
  /\ pc = "persist"
  /\ \/ /\ IF cfg.cache /\ text # content
           THEN cacheFile' = writeCache(cacheFile, cache) /\ persisted' = TRUE
           ELSE UNCHANGED << cacheFile, persisted >>
        /\ IF text = content
           THEN result' = [changed |-> 0, todosFound |-> Len(todos)] /\ pc' = "return"
           ELSE pc' = "write" /\ UNCHANGED result
        /\ UNCHANGED err
     \/ /\ faults /\ cfg.cache /\ text # content
        /\ pc' = "throw" /\ err' = "cache"
        /\ UNCHANGED << cacheFile, persisted, result >>
  /\ UNCHANGED << disk, svc, cfg, dryRun, faults, obj, targets, mainVars, fileVars, loopVars,
                  llmVars, parts, j, lastRepl, wrote, formatted, done >>

\* processFilePersist that leaves the cache file for later.
processFilePersist_Later ==
  /\ pc = "persist"
  /\ IF text = content
     THEN result' = [changed |-> 0, todosFound |-> Len(todos)] /\ pc' = "return"
     ELSE pc' = "write" /\ UNCHANGED result
  /\ UNCHANGED << disk, svc, cacheFile, cfg, dryRun, faults, obj, targets, mainVars,
                  fileVars, loopVars, llmVars, parts, j, lastRepl, wrote, formatted,
                  persisted, err, done >>

\* processFile: writeCache, then the test of rewriteTodos' result.
processFilePersist ==
  /\ pc = "persist"
  /\ \/ /\ IF cfg.cache
           THEN cacheFile' = writeCache(cacheFile, cache) /\ persisted' = TRUE
           ELSE UNCHANGED << cacheFile, persisted >>
        /\ IF text = content
           THEN result' = [changed |-> 0, todosFound |-> Len(todos)] /\ pc' = "return"
           ELSE pc' = "write" /\ UNCHANGED result
        /\ UNCHANGED err
     \/ \* Deno.writeTextFile(path, ...) in writeCache throws
        /\ faults /\ cfg.cache
        /\ pc' = "throw" /\ err' = "cache"
        /\ UNCHANGED << cacheFile, persisted, result >>
  /\ UNCHANGED << disk, svc, cfg, dryRun, faults, obj, targets, mainVars, fileVars, loopVars,
                  llmVars, parts, j, lastRepl, wrote, formatted, done >>

\* processFileWrite without the test of dryRun.
processFileWrite_Always ==
  /\ pc = "write"
  /\ \/ /\ disk' = [disk EXCEPT ![targets[fi]] = text] /\ wrote' = TRUE
        /\ pc' = "format"
        /\ UNCHANGED err
     \/ /\ faults
        /\ pc' = "throw" /\ err' = "write"
        /\ UNCHANGED << disk, wrote >>
  /\ UNCHANGED << svc, cacheFile, cfg, dryRun, faults, obj, targets, mainVars, fileVars, loopVars,
                  llmVars, parts, j, lastRepl, formatted, persisted, result, done >>

\* processFile: Deno.writeTextFile unless dry-run.
processFileWrite ==
  /\ pc = "write"
  /\ \/ /\ IF ~dryRun
           THEN disk' = [disk EXCEPT ![targets[fi]] = text] /\ wrote' = TRUE
           ELSE UNCHANGED << disk, wrote >>
        /\ pc' = "format"
        /\ UNCHANGED err
     \/ \* Deno.writeTextFile(absPath, updated) throws
        /\ faults /\ ~dryRun
        /\ pc' = "throw" /\ err' = "write"
        /\ UNCHANGED << disk, wrote >>
  /\ UNCHANGED << svc, cacheFile, cfg, dryRun, faults, obj, targets, mainVars, fileVars, loopVars,
                  llmVars, parts, j, lastRepl, formatted, persisted, result, done >>

\* processFile: formatFiles when enabled, then the return value.
processFileFormat ==
  /\ pc = "format"
  /\ formatted' = (~dryRun /\ cfg.format)
  /\ result' = [changed |-> 1, todosFound |-> Len(todos)]
  /\ pc' = "return"
  /\ UNCHANGED << envVars, mainVars, fileVars, loopVars, llmVars, parts, j, lastRepl,
                  wrote, persisted, err, done >>

\* The matches do not overlap: no line belongs to two of them.
Disjoint(ts) ==
  \A m, n \in 1..Len(ts) :
    m # n => (ts[m].end < ts[n].start \/ ts[n].end < ts[m].start)

\* The pass that is returning was a real run over disjoint matches that
\* visited every match and applied its batch, if it had one.
PassComplete ==
  /\ ~dryRun
  /\ Disjoint(todos)
  /\ i > Len(sorted)
  /\ batch \in {"none", "applied"}

\* main(): the counters are updated from the value processFile returned.
mainReturn ==
  /\ pc = "return"
  /\ changedCount' = changedCount + result.changed
  /\ todoCount' = todoCount + result.todosFound
  /\ processed' = processed + 1
  /\ fi' = fi + 1
  /\ pc' = "main"
  /\ report' = Append(report, [path |-> targets[fi], ok |-> TRUE, err |-> "none"] @@ result)
  /\ done' = [done EXCEPT ![targets[fi]] = PassComplete]
  /\ ResetLocals
  /\ UNCHANGED << envVars, run, errors >>

\* mainCatch that gives up the remaining targets.
mainCatch_Stop ==
  /\ pc = "throw"
  /\ errors' = errors + 1
  /\ fi' = Len(targets) + 1
  /\ pc' = "main"
  /\ report' = Append(report, [path |-> targets[fi], ok |-> FALSE, err |-> err] @@ NoResult)
  /\ done' = [done EXCEPT ![targets[fi]] = FALSE]
  /\ ResetLocals
  /\ UNCHANGED << envVars, run, changedCount, todoCount, processed >>

\* main(): the catch block logs the error of this file and goes on.
mainCatch ==
  /\ pc = "throw"
  /\ errors' = errors + 1
  /\ fi' = fi + 1
  /\ pc' = "main"
  /\ report' = Append(report, [path |-> targets[fi], ok |-> FALSE, err |-> err] @@ NoResult)
  /\ done' = [done EXCEPT ![targets[fi]] = FALSE]
  /\ ResetLocals
  /\ UNCHANGED << envVars, run, changedCount, todoCount, processed >>

Next ==
  \/ StartRun
  \/ EndRun
  \/ processFile
  \/ Tick
  \/ rewriteTodosStep
  \/ rewriteTodosLoopEnd
  \/ rewriteTodosBatch
  \/ runLLMAttempt
  \/ runLLMSleep
  \/ rewriteTodosSplit
  \/ rewriteTodosApply
  \/ processFilePersist
  \/ processFileWrite
  \/ processFileFormat
  \/ mainReturn
  \/ mainCatch

Spec == Init /\ [][Next]_vars

\* ------------------------------------------------- the library, called alone
\* detectTodos and applyRewrites called directly, as their unit tests do:
\* a content, the matches detectTodos finds in it, and one of them replaced
\* by a new comment.
ContextLine == << "Context", ":", " ", "c" >>
GoalLine == << "Goal", ":", " ", "g" >>
\* A block comment opened and closed on one line.
TodoInline == << "/*", " ", "TODO", ":", " ", "c", " ", "*/" >>
\* A trailing comment in lower case, no space after the marker; `context` in
\* lower case.
TodoLower == << "x", " ", "//", "todo", " ", "context" >>
TodoTask == << "#", " ", "TODO", ":", " ", "AI TASK:" >>
FnAlphabet ==
  LineAlphabet \cup {ContextLine, GoalLine, TodoInline, TodoLower, TodoTask}
FnContents == UNION {[1..m -> FnAlphabet] : m \in 1..MaxLines}

\* New comments: a brief without markers, one whose first line carries `//`,
\* one line carrying `#` after leading whitespace, the empty string, a
\* block comment, a brief between blank lines.
FnComments ==
  { BriefPart,
    << << "//", " ", "Context", ":", " ", "c" >>, GoalLine >>,
    << << " ", "#", " ", "Goal" >> >>,
    EmptyText,
    << << "/*", " ", "Context", " ", "*/" >> >>,
    << <<>>, GoalLine, <<>> >> }

FnInit ==
  /\ content \in FnContents
  /\ text = content
  /\ pc = "fn"
  /\ targets = <<>>
  /\ disk = [p \in Paths |-> << CodeLine >>]
  /\ cfg = BaseCfg /\ dryRun = FALSE /\ faults = FALSE
  /\ svc = NoSvc
  /\ cacheFile = NoFile
  /\ obj = EmptyMap
  /\ run = 0 /\ fi = 1
  /\ changedCount = 0 /\ todoCount = 0 /\ processed = 0 /\ errors = 0
  /\ report = <<>>
  /\ todos = <<>> /\ cache = EmptyMap /\ elapsed = 0
  /\ sorted = <<>> /\ i = 1 /\ pending = <<>>
  /\ contexts = <<>> /\ fileKeys = <<>> /\ todoKeys = <<>>
  /\ loopText = EmptyText /\ prompt = NoPrompt /\ calls = 0 /\ attempt = 0
  /\ log = <<>> /\ out = Null /\ batch = "none" /\ parts = <<>> /\ j = 1
  /\ lastRepl = NoRepl
  /\ wrote = FALSE /\ formatted = FALSE /\ persisted = FALSE
  /\ result = NoResult /\ err = "none"
  /\ done = [p \in Paths |-> FALSE]

\* const { todos } = detectTodos(content)
callDetectTodos ==
  /\ pc = "fn"
  /\ todos' = detectTodos(content)
  /\ pc' = "detected"
  /\ UNCHANGED << envVars, mainVars, content, cache, elapsed, loopVars, llmVars,
                  parts, j, lastRepl, endVars, done >>

\* const out = applyRewrites({ content, todo, newComment })
callApplyRewrites ==
  /\ pc = "detected"
  /\ \E n \in 1..Len(todos) : \E newComment \in FnComments :
       /\ text' = applyRewrites(content, todos[n], newComment)
       /\ lastRepl' = [NoRepl EXCEPT !.kind = "fn", !.todo = todos[n],
                                     !.with = newComment]
  /\ pc' = "applied"
  /\ UNCHANGED << envVars, mainVars, fileVars, sorted, i, pending, contexts,
                  fileKeys, todoKeys, llmVars, parts, j, endVars, done >>

FnNext == callDetectTodos \/ callApplyRewrites

FnSpec == FnInit /\ [][FnNext]_vars

\* loadConfig called directly, as config.test.ts does. The sources of one
\* call: the flags, the environment, the project file, the global file, the
\* file named by --config, and whether --config was given. A model is named
\* after the source that gives it, or is the empty string.
Opt(vals) == {{}} \cup {{v} : v \in vals}
Styles == Opt({"succinct", "verbose"})
Flags == Opt({TRUE, FALSE})
Models(src) == Opt({"", src})

\* The calls in which the sources define the model only, the style only, or
\* the cache setting only.
ModelCalls ==
  {[cli |-> [NoConfig EXCEPT !.model = c], env |-> [NoConfig EXCEPT !.model = e],
    project |-> [NoConfig EXCEPT !.model = q], global |-> [NoConfig EXCEPT !.model = g],
    override |-> [NoConfig EXCEPT !.model = o], configPath |-> b] :
     c \in Models("cli"), e \in Models("env"), q \in Models("project"),
     g \in Models("global"), o \in Models("override"), b \in BOOLEAN}
StyleCalls ==
  {[cli |-> [NoConfig EXCEPT !.style = c], env |-> [NoConfig EXCEPT !.style = e],
    project |-> [NoConfig EXCEPT !.style = q], global |-> [NoConfig EXCEPT !.style = g],
    override |-> [NoConfig EXCEPT !.style = o], configPath |-> b] :
     c \in Styles, e \in Styles, q \in Styles, g \in Styles, o \in Styles,
     b \in BOOLEAN}
CacheCalls ==
  {[cli |-> [NoConfig EXCEPT !.cache = c], env |-> NoConfig,
    project |-> [NoConfig EXCEPT !.cache = q], global |-> [NoConfig EXCEPT !.cache = g],
    override |-> [NoConfig EXCEPT !.cache = o], configPath |-> b] :
     c \in Flags, q \in Flags, g \in Flags, o \in Flags, b \in BOOLEAN}
\* The calls in which a file may define style and verboseLogs and a flag
\* may define verboseLogs.
VerboseCalls ==
  {[cli |-> [NoConfig EXCEPT !.verboseLogs = c], env |-> NoConfig,
    project |-> [NoConfig EXCEPT !.verboseLogs = q[1], !.style = q[2]],
    global |-> NoConfig,
    override |-> [NoConfig EXCEPT !.verboseLogs = o[1], !.style = o[2]],
    configPath |-> b] :
     c \in Flags, q \in Flags \X Styles, o \in Flags \X Styles, b \in BOOLEAN}
ConfigCalls == ModelCalls \cup StyleCalls \cup CacheCalls \cup VerboseCalls

ConfigInit ==
  /\ obj \in ConfigCalls
  /\ cfg = defaults
  /\ pc = "config"
  /\ cacheFile = NoFile
  /\ content = EmptyText /\ text = EmptyText
  /\ targets = <<>>
  /\ disk = [p \in Paths |-> << CodeLine >>]
  /\ dryRun = FALSE /\ faults = FALSE
  /\ svc = NoSvc
  /\ run = 0 /\ fi = 1
  /\ changedCount = 0 /\ todoCount = 0 /\ processed = 0 /\ errors = 0
  /\ report = <<>>
  /\ todos = <<>> /\ cache = EmptyMap /\ elapsed = 0
  /\ sorted = <<>> /\ i = 1 /\ pending = <<>>
  /\ contexts = <<>> /\ fileKeys = <<>> /\ todoKeys = <<>>
  /\ loopText = EmptyText /\ prompt = NoPrompt /\ calls = 0 /\ attempt = 0
  /\ log = <<>> /\ out = Null /\ batch = "none" /\ parts = <<>> /\ j = 1
  /\ lastRepl = NoRepl
  /\ wrote = FALSE /\ formatted = FALSE /\ persisted = FALSE
  /\ result = NoResult /\ err = "none"
  /\ done = [p \in Paths |-> FALSE]

\* const { config } = await loadConfig({ cwd, cli, configPath })
callLoadConfig ==
  /\ pc = "config"
  /\ cfg' = loadConfig(obj)
  /\ pc' = "resolved"
  /\ UNCHANGED << disk, svc, cacheFile, dryRun, faults, obj, targets, mainVars, fileVars,
                  loopVars, llmVars, parts, j, lastRepl, endVars, done >>

ConfigNext == callLoadConfig

ConfigSpec == ConfigInit /\ [][ConfigNext]_vars

\* readCache and writeCache called directly on one path, as cache.test.ts
\* does: a mapping of strings to strings, and a path that holds no file, a
\* file that cannot be read, or a file with some text.
CacheMaps == UNION {[ks -> {"1", "two"}] : ks \in SUBSET {"a", "b"}}
\* A text cut off in its second member, and one that names a key twice.
Truncated == << << "a", "1" >>, << "b" >> >>
Repeated == << << "a", "1" >>, << "a", "two" >> >>
CacheTexts == {JSONstringify(m) : m \in CacheMaps} \cup {Truncated, Repeated}
CacheFiles ==
  {NoFile} \cup [exists : {TRUE}, readable : BOOLEAN, text : CacheTexts]

CacheInit ==
  /\ obj \in CacheMaps
  /\ cacheFile \in CacheFiles
  /\ pc = "cache"
  /\ content = EmptyText /\ text = EmptyText
  /\ targets = <<>>
  /\ disk = [p \in Paths |-> << CodeLine >>]
  /\ cfg = BaseCfg /\ dryRun = FALSE /\ faults = FALSE
  /\ svc = NoSvc
  /\ run = 0 /\ fi = 1
  /\ changedCount = 0 /\ todoCount = 0 /\ processed = 0 /\ errors = 0
  /\ report = <<>>
  /\ todos = <<>> /\ cache = EmptyMap /\ elapsed = 0
  /\ sorted = <<>> /\ i = 1 /\ pending = <<>>
  /\ contexts = <<>> /\ fileKeys = <<>> /\ todoKeys = <<>>
  /\ loopText = EmptyText /\ prompt = NoPrompt /\ calls = 0 /\ attempt = 0
  /\ log = <<>> /\ out = Null /\ batch = "none" /\ parts = <<>> /\ j = 1
  /\ lastRepl = NoRepl
  /\ wrote = FALSE /\ formatted = FALSE /\ persisted = FALSE
  /\ result = NoResult /\ err = "none"
  /\ done = [p \in Paths |-> FALSE]

\* await writeCache(path, obj)
callWriteCache ==
  /\ pc = "cache"
  /\ cacheFile' = writeCache(cacheFile, obj)
  /\ pc' = "written"
  /\ UNCHANGED << disk, svc, cfg, dryRun, faults, obj, targets, mainVars, fileVars,
                  loopVars, llmVars, parts, j, lastRepl, endVars, done >>

\* const read = await readCache(path)
callReadCache ==
  /\ pc \in {"cache", "written"}
  /\ cache' = readCache(cacheFile)
  /\ pc' = IF pc = "written" THEN "readback" ELSE "read"
  /\ UNCHANGED << envVars, mainVars, content, todos, elapsed, loopVars, llmVars,
                  parts, j, lastRepl, endVars, done >>

CacheNext == callWriteCache \/ callReadCache

CacheSpec == CacheInit /\ [][CacheNext]_vars

\* ------------------------------------------------- runLLM's backoff, alone
\* Math.random() is a fraction num / RandomDen with 0 <= num < RandomDen.
RandomDen == 400
Randoms == {0, 1, 100, 200, 399}

\* The delay without its ceiling of five seconds.
backoffDelay_Uncapped(retryBackoffMs, n) == retryBackoffMs * 2^(n - 1)

\* runLLM: Math.min(5000, retryBackoffMs * Math.pow(2, attempt - 1))
backoffDelay(retryBackoffMs, n) == Min(5000, retryBackoffMs * 2^(n - 1))

\* runLLM: Math.floor(Math.random() * Math.min(200, delay / 2)); twice the
\* smaller bound is min(400, delay), which keeps the halves out of the
\* arithmetic.
backoffJitter(delay, num) == (num * Min(400, delay)) \div (2 * RandomDen)

\* --retry-backoff-ms and --retries as the command line may give them.
Backoffs == {0, 1, 2, 3, 399, 400, 500, 1250, 2500, 5000, 6000}
BackoffRetries == 0..(MaxRetries + 2)

\* runLLM entered with one request to send; log holds the sleeps taken.
BackoffInit ==
  /\ \E b \in Backoffs, r \in BackoffRetries :
       cfg = [retryBackoffMs |-> b] @@ [BaseCfg EXCEPT !.retries = r]
  /\ pc = "backoff"
  /\ attempt = 1
  /\ log = <<>>
  /\ obj = EmptyMap
  /\ cacheFile = NoFile
  /\ content = EmptyText /\ text = EmptyText
  /\ targets = <<>>
  /\ disk = [p \in Paths |-> << CodeLine >>]
  /\ dryRun = FALSE /\ faults = FALSE
  /\ svc = NoSvc
  /\ run = 0 /\ fi = 1
  /\ changedCount = 0 /\ todoCount = 0 /\ processed = 0 /\ errors = 0
  /\ report = <<>>
  /\ todos = <<>> /\ cache = EmptyMap /\ elapsed = 0
  /\ sorted = <<>> /\ i = 1 /\ pending = <<>>
  /\ contexts = <<>> /\ fileKeys = <<>> /\ todoKeys = <<>>
  /\ loopText = EmptyText /\ prompt = NoPrompt /\ calls = 0
  /\ out = Null /\ batch = "none" /\ parts = <<>> /\ j = 1
  /\ lastRepl = NoRepl
  /\ wrote = FALSE /\ formatted = FALSE /\ persisted = FALSE
  /\ result = NoResult /\ err = "none"
  /\ done = [p \in Paths |-> FALSE]

\* runLLM: a failed attempt that is retried: the sleep is computed and taken,
\* and the loop continues with the next attempt.
runLLMBackoff ==
  /\ pc = "backoff"
  /\ \E o \in Outcomes, num \in Randoms :
       /\ ~o.ok
       /\ attempt < totalAttempts /\ isRetriable(o)
       /\ LET delay == backoffDelay(cfg.retryBackoffMs, attempt)
              jitter == backoffJitter(delay, num)
          IN log' = Append(log, [attempt |-> attempt, delay |-> delay,
                                 jitter |-> jitter, sleepMs |-> delay + jitter])
  /\ attempt' = attempt + 1
  /\ UNCHANGED << envVars, mainVars, fileVars, loopVars, loopText, prompt, calls,
                  out, batch, parts, j, lastRepl, endVars, done, pc >>

\* runLLM: an attempt that ends the loop: a response, a failure that is not
\* retried, or the last attempt allowed.
runLLMReturn ==
  /\ pc = "backoff"
  /\ \E o \in Outcomes : o.ok \/ ~(attempt < totalAttempts /\ isRetriable(o))
  /\ pc' = "returned"
  /\ UNCHANGED << envVars, mainVars, fileVars, loopVars, loopText, prompt, calls,
                  attempt, log, out, batch, parts, j, lastRepl, endVars, done >>

BackoffNext == runLLMBackoff \/ runLLMReturn

BackoffSpec == BackoffInit /\ [][BackoffNext]_vars

\* ------------------------------------------- a dry run and a real run, paired
\* processFile on one file twice from the same start: first with --dry-run,
\* then without it.  obj keeps the cache file of the start, report the
\* first pass as it ended; run counts the passes.
DryCaches ==
  {NoFile, writeCache(NoFile, Put(EmptyMap, todoKey(<< TodoHash >>), BriefPart))}
DryCfgs == {su[1] : su \in {x \in Setups : x[1].retries <= 1}}

\* What a pass did, as far as a caller or the file system can tell.
Pass ==
  [returned |-> pc = "return", err |-> err, result |-> result,
   sorted |-> sorted, i |-> i, pending |-> pending,
   fileKeys |-> fileKeys, todoKeys |-> todoKeys, contexts |-> contexts,
   prompt |-> prompt, calls |-> calls, batch |-> batch,
   text |-> text, cache |-> cache, cacheFile |-> cacheFile, persisted |-> persisted,
   wrote |-> wrote, formatted |-> formatted, onDisk |-> disk[targets[fi]]]

DryInit ==
  /\ targets = << "a.ts" >>
  /\ disk \in {[p \in Paths |-> IF p = "a.ts" THEN f ELSE << CodeLine >>] :
                  f \in FilesUpTo(2)}
  /\ \/ cfg \in DryCfgs /\ faults = FALSE
     \/ cfg = BaseCfg /\ faults = TRUE
  /\ dryRun = TRUE
  /\ cacheFile \in DryCaches
  /\ obj = cacheFile
  /\ svc = NoSvc
  /\ run = 1 /\ fi = 1
  /\ changedCount = 0 /\ todoCount = 0 /\ processed = 0 /\ errors = 0
  /\ report = <<>>
  /\ pc = "main"
  /\ content = EmptyText /\ todos = <<>> /\ cache = EmptyMap /\ elapsed = 0
  /\ text = EmptyText /\ sorted = <<>> /\ i = 1 /\ pending = <<>>
  /\ contexts = <<>> /\ fileKeys = <<>> /\ todoKeys = <<>>
  /\ loopText = EmptyText /\ prompt = NoPrompt /\ calls = 0 /\ attempt = 0
  /\ log = <<>> /\ out = Null /\ batch = "none" /\ parts = <<>> /\ j = 1
  /\ lastRepl = NoRepl
  /\ wrote = FALSE /\ formatted = FALSE /\ persisted = FALSE
  /\ result = NoResult /\ err = "none"
  /\ done = [p \in Paths |-> FALSE]

\* The dry pass has returned or thrown: the cache file of the start is put
\* back and the same call is made again without --dry-run.  The file on disk
\* is left as the dry pass left it.
secondPass ==
  /\ pc \in {"return", "throw"} /\ run = 1
  /\ report' = << Pass >>
  /\ cacheFile' = obj
  /\ dryRun' = FALSE
  /\ run' = 2
  /\ pc' = "main"
  /\ ResetLocals
  /\ UNCHANGED << disk, svc, cfg, faults, obj, targets, fi, changedCount, todoCount,
                  processed, errors, done >>

DryNext ==
  \/ processFile
  \/ Tick
  \/ rewriteTodosStep
  \/ rewriteTodosLoopEnd
  \/ rewriteTodosBatch
  \/ runLLMAttempt
  \/ runLLMSleep
  \/ rewriteTodosSplit
  \/ rewriteTodosApply
  \/ processFilePersist
  \/ processFileWrite
  \/ processFileFormat
  \/ secondPass

DrySpec == DryInit /\ [][DryNext]_vars

\* -------------------------------------------------------------- properties
Replaced == lastRepl.kind \in {"cache", "llm"}
Visited == lastRepl.kind \in {"cache", "pending"}
InFile == pc \in {"loop", "batch", "llm", "sleep", "split", "apply", "persist",
                  "write", "format", "return", "throw"}
Path == targets[fi]

\* The lines raw occur, in order and adjacent, somewhere in t.
Occurs(raw, t) == \E k \in 0..Len(t) : Slice(t, k, k + Len(raw)) = raw

\* The error of this file came from the file system (reading the file, writing
\* it, writing the cache file), not from the completion.
IOError == err \in {"read", "cache", "write"}

\* C1: every replacement of a processFile run, from the cache or from the
\* batched completion, finds the match's original rawText in lines
\* [start, end] of the working text at the moment it is applied (stated for
\* files whose matches do not overlap).
C1_ReplacementFindsRawText == (Replaced /\ Disjoint(todos)) => lastRepl.held

\* C2: when the completion output splits into a number of parts different
\* from the number of pending matches, the batch is discarded: the text stays
\* what it was when the loop ended, nothing is cached, and the result still
\* counts every detected match (and reports no change when all were pending).
C2_MisalignedBatchDiscarded ==
  (InFile /\ batch = "misaligned") =>
     /\ text = loopText
     /\ lastRepl.kind # "llm"
     /\ \A n \in 1..Len(pending) : ~Truthy(cache, fileKeys[n])
     /\ pc = "throw" => IOError
     /\ pc = "return" =>
          /\ result.todosFound = Len(todos)
          /\ Len(pending) = Len(todos) => (result.changed = 0 /\ disk[Path] = content)

C2_Witness ==
  /\ pc = "return" /\ batch = "misaligned"
  /\ Len(pending) = 3 /\ Len(todos) = 3
  /\ result = [changed |-> 0, todosFound |-> 3]
  /\ text = content

\* C3: a pass over a file whose previous pass replaced every match it found
\* (and wrote the result) detects no match and reports no change.
C3_SecondPassChangesNothing ==
  (pc = "return" /\ done[Path]) =>
     /\ todos = <<>>
     /\ result.changed = 0
     /\ disk[Path] = content

\* C4: a runLLM call makes at least one and at most 1 + retries attempts,
\* makes none after a success, and makes exactly 1 + retries when every
\* attempt fails retriably.
C4_AttemptCount ==
  /\ cfg.retries \in Nat
  /\ pc \in {"llm", "sleep"} =>
       /\ Len(log) = attempt - (IF pc = "llm" THEN 1 ELSE 0)
       /\ Len(log) < 1 + cfg.retries
       /\ \A n \in 1..Len(log) : ~log[n].ok
  /\ pc = "split" =>
       /\ Len(log) >= 1 /\ Len(log) <= 1 + cfg.retries
       /\ \A n \in 1..(Len(log) - 1) : ~log[n].ok
       /\ (~Last(log).ok /\ (Last(log).kind = "abort" \/ Last(log).status \in {408, 429}
                              \/ Last(log).status \in 500..599))
            => Len(log) = 1 + cfg.retries

C4_Witness ==
  /\ pc = "split" /\ cfg.retries = 2 /\ Len(log) = 3
  /\ log[1].status = 500 /\ log[2].status = 500
  /\ log[3].status = 200 /\ log[3].kind = "text"
  /\ out # Null

\* C5: a failed attempt is followed by another one only if the failure is an
\* abort or a status 408, 429 or 500..599 and attempts remain; any other
\* failure ends the call at once with null.
C5_RetryOnlyRetriable ==
  /\ \A n \in 1..Len(log) :
       (n < Len(log) \/ pc = "sleep") =>
          /\ ~log[n].ok
          /\ log[n].kind = "abort" \/ log[n].status \in {408, 429} \/ log[n].status \in 500..599
          /\ n < 1 + cfg.retries
  /\ (pc = "split" /\ ~Last(log).ok) => out = Null
  /\ (log # <<>> /\ log[1].status = 400) => (Len(log) = 1 /\ pc = "split" /\ out = Null)

C5_Witness ==
  /\ pc = "split" /\ cfg.retries = 2
  /\ Len(log) = 1 /\ log[1].status = 400
  /\ out = Null

\* C6: a processFile run makes at most one completion call; its request
\* lists the uncached matches in the order the loop accumulated them, and
\* no call is made when nothing is pending.
C6_OneBatchedCall ==
  InFile =>
    /\ calls <= 1
    /\ (calls = 1) <=> (pending # <<>> /\ pc \notin {"loop", "batch"})
    /\ todos = <<>> => calls = 0
    /\ calls = 1 =>
         /\ Len(prompt.todos) = Len(pending)
         /\ \A n \in 1..Len(pending) : prompt.todos[n].todoComment = pending[n].raw
    /\ \A n \in 1..Len(pending) :
         /\ \E m \in 1..Min(i - 1, Len(sorted)) : sorted[m] = pending[n]
         /\ \A m \in 1..(n - 1) : pending[m].start >= pending[n].start

C6_Witness ==
  /\ pc = "llm" /\ calls = 1
  /\ Len(pending) = 2 /\ Len(todos) = 3
  /\ Len(prompt.todos) = 2

\* C7: with caching on, the file-scoped key is consulted before the global
\* key; a match with an entry under either key is rewritten with that text
\* and is not made pending, and a hit under the global key alone sets the
\* file-scoped key to the same text.
C7_CacheLookup ==
  (cfg.cache /\ Visited) =>
     /\ (lastRepl.hadFile \/ lastRepl.hadTodo) => lastRepl.kind = "cache"
     /\ lastRepl.kind = "cache" =>
          /\ \A n \in 1..Len(pending) : pending[n] # lastRepl.todo
          /\ lastRepl.with = cache[cacheKey(Path, lastRepl.todo.raw)]
          /\ ~lastRepl.hadFile => lastRepl.with = cache[todoKey(lastRepl.todo.raw)]

\* C8: with caching on, an applied completion output is stored under both
\* keys, and a match whose rawText has an entry under the global key is
\* rewritten from the cache instead of being sent to the completion service.
C8_StoredAndReused ==
  /\ (cfg.cache /\ lastRepl.kind = "llm") =>
        /\ cache[cacheKey(Path, lastRepl.todo.raw)] = lastRepl.with
        /\ cache[todoKey(lastRepl.todo.raw)] = lastRepl.with
  /\ (cfg.cache /\ Visited /\ lastRepl.hadTodo) =>
        /\ lastRepl.kind = "cache"
        /\ calls = 0 \/ \A n \in 1..Len(prompt.todos) :
                           prompt.todos[n].todoComment # lastRepl.todo.raw

C10_DryRunWritesNothing ==
  (dryRun /\ InFile) =>
     /\ ~wrote /\ ~formatted
     /\ disk[Path] = content
     /\ pc = "return" => (result.changed = 1 <=> text # content)

C10_Witness ==
  /\ dryRun /\ pc = "return"
  /\ result.changed = 1 /\ text # content
  /\ disk[Path] = content

\* C11: with caching on, a processFile run that detected a match has written
\* the cache map to disk when it returns, changed or not, completion failed
\* or not; what it writes holds every entry that was on disk before, so the
\* cache file keeps the entries of the files processed earlier.
C11_CachePersistedBeforeReturn ==
  cfg.cache =>
    /\ (InFile /\ todos # <<>>) =>
          \A k \in DOMAIN readCache(cacheFile) : Has(cache, k)
    /\ (pc = "return" /\ todos # <<>>) =>
          /\ persisted
          /\ cacheFile.exists /\ readCache(cacheFile) = cache

C11_Witness ==
  /\ cfg.cache /\ pc = "return" /\ fi = 2
  /\ batch = "failed" /\ result.changed = 0 /\ todos # <<>>
  /\ persisted /\ readCache(cacheFile) = cache
  /\ \E k \in DOMAIN cache : k[2] = "a.ts"

\* The per-match loop was left by the timeout check: matches sorted[i..] were
\* never visited.
Stopped == InFile /\ pc \notin {"loop", "throw"} /\ i <= Len(sorted)

C13_NoCallAfterDeadline ==
  (pc = "llm") => elapsed <= cfg.perFileTimeoutMs

\* Sums over the files of the report whose processFile returned.
RECURSIVE SumChanged(_)
SumChanged(rep) ==
  IF rep = <<>> THEN 0
  ELSE (IF rep[1].ok THEN rep[1].changed ELSE 0) + SumChanged(Tail(rep))

RECURSIVE SumFound(_)
SumFound(rep) ==
  IF rep = <<>> THEN 0
  ELSE (IF rep[1].ok THEN rep[1].todosFound ELSE 0) + SumFound(Tail(rep))

\* C14: in a run of main, the files handled so far (returned or failed) are
\* the targets before the current one, each once and in list order, whatever
\* failed among them; when the run ends every target has been handled, and
\* the counters of the summary are the sums of changed and todosFound over the
\* files whose processFile returned.
C14_ErrorsDoNotStopTheRun ==
  run >= 1 =>
    /\ Len(report) = (IF pc = "exit" THEN Len(targets) ELSE fi - 1)
    /\ \A k \in 1..Len(report) : report[k].path = targets[k]
    /\ changedCount = SumChanged(report)
    /\ todoCount = SumFound(report)
    /\ processed + errors = Len(report)
    /\ errors = Cardinality({k \in 1..Len(report) : ~report[k].ok})

C14_Witness ==
  /\ pc = "exit" /\ run = 1 /\ Len(targets) = 2
  /\ ~report[1].ok /\ report[1].err = "cache"
  /\ report[2].ok /\ report[2].changed = 1 /\ report[2].todosFound = 1
  /\ changedCount = 1 /\ todoCount = 1 /\ processed = 1 /\ errors = 1

\* detectTodos has returned its matches for content.
Detected == pc \in {"detected", "applied"}

\* Line index k lies in the range of match t.
Covers(t, k) == t.start <= k /\ k <= t.end

\* C15: the matches detectTodos returns are pairwise non-overlapping: no line
\* index lies in the range of two different matches.
C15_MatchesDoNotOverlap ==
  Detected =>
    \A m, n \in 1..Len(todos) :
      m # n => ~\E k \in 0..(Len(content) - 1) : Covers(todos[m], k) /\ Covers(todos[n], k)

HasWord(raw, w) == \E a \in 1..Len(raw) : \E b \in 1..Len(raw[a]) : raw[a][b] = w

\* C17: no match detectTodos returns holds `AI TASK:` or one of the words
\* Context, Goal, Steps, Constraints, Acceptance in its rawText; a block
\* comment that starts with TODO and has a Context and a Goal line gives no
\* match at all.
C17_StructuredNotReturned ==
  Detected =>
    /\ \A n \in 1..Len(todos) :
         /\ ~HasWord(todos[n].raw, "AI TASK:")
         /\ ~HasWord(todos[n].raw, "Context")
         /\ ~HasWord(todos[n].raw, "Goal")
         /\ ~HasWord(todos[n].raw, "Steps")
         /\ ~HasWord(todos[n].raw, "Constraints")
         /\ ~HasWord(todos[n].raw, "Acceptance")
    /\ content = << TodoBlockOpen, ContextLine, GoalLine >> => todos = <<>>

C17_Witness ==
  /\ Detected
  /\ content = << TodoBlockOpen, ContextLine, GoalLine >>
  /\ TODO_BLOCK_START(content[1])
  /\ todos = <<>>

\* Line ln holds `/*`, optional whitespace, TODO and a colon or a space.
OpensTodoBlock(ln) ==
  \E k \in 1..(Len(ln) - 2) :
    /\ ln[k] = "/*"
    /\ \E h \in (k + 1)..(Len(ln) - 1) :
         /\ \A g \in (k + 1)..(h - 1) : ln[g] = " "
         /\ ln[h] \in {"TODO", "todo", "Todo"}
         /\ ln[h + 1] \in {":", " "}

\* Zero-based index of the first line at or after line s that holds `*/`,
\* the last line of the content when there is none.
BlockEndLine(c, s) ==
  LET closing == {k \in s..(Len(c) - 1) : \E b \in 1..Len(c[k + 1]) : c[k + 1][b] = "*/"}
  IN IF closing = {} THEN Len(c) - 1
     ELSE CHOOSE k \in closing : \A h \in closing : k <= h

\* C18: a block match starts on a line that opens a TODO block comment and
\* ends on the first line at or after its start that holds the closing marker,
\* the last line of the content when none does; its rawText is exactly the
\* lines start..end, its style is block and its marker is the block opener.
C18_BlockMatchExtent ==
  Detected =>
    \A n \in 1..Len(todos) :
      todos[n].style = "block" =>
        /\ todos[n].start \in 0..(Len(content) - 1)
        /\ OpensTodoBlock(content[todos[n].start + 1])
        /\ todos[n].end = BlockEndLine(content, todos[n].start)
        /\ todos[n].raw = SubSeq(content, todos[n].start + 1, todos[n].end + 1)
        /\ todos[n].marker = "/*"

C18_Witness ==
  /\ Detected /\ Len(content) = 3
  /\ \E m, n \in 1..Len(todos) :
       /\ todos[m] = [start |-> 0, end |-> 0, raw |-> << TodoInline >>,
                      style |-> "block", marker |-> "/*"]
       /\ todos[n] = [start |-> 1, end |-> 2, raw |-> << TodoBlockOpen, CodeLine >>,
                      style |-> "block", marker |-> "/*"]

\* applyRewrites has replaced match lastRepl.todo of content by
\* lastRepl.with, giving text.
Applied == pc = "applied"

\* The first and the last line of c that are not blank (Len + 1 and 0 when
\* every line is blank).
FirstWritten(c) ==
  IF \A k \in 1..Len(c) : IsBlankLine(c[k]) THEN Len(c) + 1
  ELSE CHOOSE k \in 1..Len(c) :
         ~IsBlankLine(c[k]) /\ \A h \in 1..(k - 1) : IsBlankLine(c[h])
LastWritten(c) ==
  IF \A k \in 1..Len(c) : IsBlankLine(c[k]) THEN 0
  ELSE CHOOSE k \in 1..Len(c) :
         ~IsBlankLine(c[k]) /\ \A h \in (k + 1)..Len(c) : IsBlankLine(c[h])

\* Lines of the replacement spliced in for new comment c: for a line-style
\* match the lines of c; for a block-style match the lines of c when it
\* already is a block comment, else the lines of c without the blank lines
\* around it, between an opening and a closing line.
ReplacementLines(t, c) ==
  LET a == FirstWritten(c)
      b == LastWritten(c)
      isBlock == a <= b /\ \E k \in 1..Len(c[a]) :
                   c[a][k] = "/*" /\ \A h \in 1..(k - 1) : c[a][h] = " "
  IN IF t.style = "line" \/ isBlock THEN Len(c)
     ELSE (IF a > b THEN 1 ELSE b - a + 1) + 2

\* C19: applyRewrites replaces exactly the lines start..end: the lines before
\* start and the lines after end are in the result unchanged and in order,
\* around the lines of the replacement, and the result has the line count
\* of the content minus (end - start + 1) plus that of the replacement.
C19_OnlyTheMatchReplaced ==
  Applied =>
    LET t == lastRepl.todo
        r == ReplacementLines(t, lastRepl.with)
    IN /\ Len(text) = Len(content) - (t.end - t.start + 1) + r
       /\ \A k \in 1..t.start : text[k] = content[k]
       /\ \A k \in (t.end + 2)..Len(content) :
            text[k - (t.end - t.start + 1) + r] = content[k]

C19_Witness ==
  /\ Applied /\ Len(content) = 3
  /\ lastRepl.todo.start = 1 /\ lastRepl.todo.end = 1 /\ lastRepl.todo.style = "line"
  /\ Len(lastRepl.with) = 2
  /\ Len(text) = 4 /\ text[1] = content[1] /\ text[4] = content[3]
  /\ content[1] # content[3]

\* Line ln starts with marker m once its leading whitespace is removed.
Carries(ln, m) ==
  \E k \in 1..Len(ln) : ln[k] = m /\ \A h \in 1..(k - 1) : ln[h] = " "

\* C20: for a line-style match, each line of the new comment is spliced in as
\* it is when it starts with the match's marker after its leading whitespace,
\* and with the marker and one space before it otherwise; so every spliced
\* line carries the marker of the match.
C20_LineStylePrefix ==
  (Applied /\ lastRepl.todo.style = "line") =>
    LET t == lastRepl.todo
        c == lastRepl.with
    IN /\ t.marker \in {"//", "#"}
       /\ \A k \in 1..Len(c) :
            /\ text[t.start + k] =
                 (IF Carries(c[k], t.marker) THEN c[k] ELSE << t.marker, " " >> \o c[k])
            /\ Carries(text[t.start + k], t.marker)

C20_Witness ==
  /\ Applied /\ lastRepl.todo.style = "line" /\ lastRepl.todo.marker = "//"
  /\ lastRepl.with = << << "//", " ", "Context", ":", " ", "c" >>, GoalLine >>
  /\ text[lastRepl.todo.start + 1] = << "//", " ", "Context", ":", " ", "c" >>
  /\ text[lastRepl.todo.start + 2] = << "//", " ", "Goal", ":", " ", "g" >>

\* The lines applyRewrites put in the place of the match.
Spliced ==
  SubSeq(text, lastRepl.todo.start + 1,
         Len(text) - (Len(content) - (lastRepl.todo.end + 1)))

\* Number of lines of txt that hold the opener of a block comment.
Openers(txt) == Cardinality({k \in 1..Len(txt) : \E b \in 1..Len(txt[k]) : txt[k][b] = "/*"})

\* C21: for a block-style match, a new comment that starts with the block
\* opener once trimmed is spliced in as it is, without a second wrapper; any
\* other new comment is spliced in as an opening line, the trimmed comment
\* and a closing line.
C21_BlockWrappedOnce ==
  (Applied /\ lastRepl.todo.style = "block") =>
    LET c == lastRepl.with
        a == FirstWritten(c)
        ready == a <= Len(c) /\ Carries(c[a], "/*")
    IN IF ready
       THEN Spliced = c
       ELSE /\ Spliced = << << "/*" >> >> \o TrimText(c) \o << << "*/" >> >>
            /\ Openers(Spliced) = 1

C21_Witness ==
  /\ Applied /\ lastRepl.todo.style = "block"
  /\ lastRepl.with = << << "/*", " ", "Context", " ", "*/" >> >>
  /\ Spliced = lastRepl.with
  /\ Openers(text) = 1

Resolved == pc = "resolved"

\* The sources of a call that are consulted, highest precedence first.
Consulted(in) ==
  IF in.configPath THEN << in.cli, in.env, in.override >>
  ELSE << in.cli, in.env, in.project, in.global >>

\* A source gives setting k: it defines it, an environment variable being
\* defined when it is not empty.
Gives(in, n, k) ==
  /\ Consulted(in)[n][k] # {}
  /\ n = 2 => \A v \in Consulted(in)[n][k] : v # ""

\* The value of setting k from the highest source that gives it, as a set:
\* empty when no source gives it.
ByPrecedence(in, k) ==
  LET givers == {n \in 1..Len(Consulted(in)) : Gives(in, n, k)}
  IN IF givers = {} THEN {}
     ELSE Consulted(in)[CHOOSE n \in givers : \A m \in givers : n <= m][k]

C24_FileBeforeCache ==
  (InFile /\ persisted /\ text # content /\ ~dryRun) => wrote

\* C24: the cache map is persisted before the target file is written: the
\* file is written only in a run that has persisted its cache map (caching
\* being on), and the cache map is persisted only while the file is not yet
\* written.
C24_CacheBeforeFile ==
  /\ (InFile /\ wrote /\ cfg.cache) => persisted
  /\ pc = "persist" => (~wrote /\ ~persisted)
  /\ (pc = "write" /\ cfg.cache) => (persisted /\ ~wrote)

C24_Witness ==
  /\ pc = "return" /\ cfg.cache /\ ~dryRun
  /\ text # content /\ disk[Path] = text
  /\ wrote /\ persisted /\ result.changed = 1
  /\ DOMAIN readCache(cacheFile) # {}

\* C25: for retryBackoffMs >= 1, the n-th retried failure sleeps delay + jitter
\* with delay = min(5000, retryBackoffMs * 2^(n-1)) and jitter an integer with
\* 0 <= jitter < min(200, delay/2); the delay never decreases from one retry
\* to the next and no sleep exceeds 5199 ms.
C25_BackoffBounds ==
  cfg.retryBackoffMs >= 1 =>
    \A n \in 1..Len(log) :
      /\ log[n].attempt = n
      /\ log[n].delay = Min(5000, cfg.retryBackoffMs * 2^(n - 1))
      /\ log[n].jitter \in Nat
      /\ 2 * log[n].jitter < Min(400, log[n].delay)
      /\ log[n].sleepMs = log[n].delay + log[n].jitter
      /\ log[n].sleepMs <= 5199
      /\ n > 1 => log[n - 1].delay <= log[n].delay
C25_Witness ==
  /\ cfg.retryBackoffMs >= 1
  /\ Len(log) >= 2
  /\ log[1].delay < log[2].delay
  /\ log[1].jitter > 0
  /\ log[Len(log)].sleepMs = 5199

\* C26: files are processed one at a time whatever the concurrency setting: a
\* file is started only from the loop head, with every earlier target
\* returned or thrown; the batched call of a file has been answered before
\* its result is finalized; the cache file changes only in the persist step
\* of the file in flight and the disk only in its write step, at its path.
C26_Finalizing == pc \in {"persist", "write", "format", "return"}
Discarded == InFile /\ pending # <<>> /\ batch \in {"misaligned", "failed"}
\* The lookup `cache[fileKey] ?? cache[tKey]` in mapping m gives no text.
Misses(m, fileKey, tKey) ==
  IF Has(m, fileKey) THEN m[fileKey] = EmptyText ELSE ~Truthy(m, tKey)

\* C27: when the batch is discarded, the in-memory cache map differs from the
\* mapping read at the start of the file only by file-scoped entries
\* backfilled from global hits, none of them under a key of a pending match;
\* the mapping persisted leaves every pending match without a cached text, so
\* a later run has to send it again.
C27_DiscardAddsNothing ==
  /\ (Discarded /\ pc = "persist") =>
       LET old == IF cfg.cache THEN readCache(cacheFile) ELSE EmptyMap
           added == (DOMAIN cache) \ (DOMAIN old)
       IN /\ \A k \in DOMAIN old : Has(cache, k) /\ cache[k] = old[k]
          /\ \A k \in added :
               \E n \in 1..Len(sorted) :
                 /\ k = cacheKey(Path, sorted[n].raw)
                 /\ Truthy(old, todoKey(sorted[n].raw))
                 /\ cache[k] = old[todoKey(sorted[n].raw)]
                 /\ \A m \in 1..Len(pending) : pending[m] # sorted[n]
          /\ \A n \in 1..Len(pending) :
               fileKeys[n] \notin added /\ todoKeys[n] \notin added
          /\ ~cfg.cache => cache = EmptyMap
  /\ (Discarded /\ persisted /\ pc \in {"write", "format", "return"}) =>
       /\ readCache(cacheFile) = cache
       /\ \A n \in 1..Len(pending) :
            Misses(readCache(cacheFile), fileKeys[n], todoKeys[n])
C27_Witness ==
  /\ Discarded /\ pc = "write" /\ persisted
  /\ run = 1 /\ fi = 2
  /\ cache # EmptyMap
  /\ \E n \in 1..Len(sorted) :
       /\ \A m \in 1..Len(pending) : pending[m] # sorted[n]
       /\ Has(cache, cacheKey(Path, sorted[n].raw))
       /\ \E q \in Paths \ {Path} : Has(cache, cacheKey(q, sorted[n].raw))

\* The step changes the value the in-memory map holds under k, or adds k.
Assigns(k) == Has(cache', k) /\ (Has(cache, k) => cache'[k] # cache[k])
\* The step stays within the processing of one file.
SameFile == InFile /\ InFile'

\* C28 (as stated): once a key holds a value no run removes the key or
\* replaces the value; a value is assigned only under a key of a match in the
\* pending batch; a match is pending only when neither of its keys holds a
\* text.
C28_EntriesStable ==
  /\ [][SameFile =>
          /\ \A k \in DOMAIN cache : Has(cache', k) /\ cache'[k] = cache[k]
          /\ \A k \in DOMAIN cache' :
               Assigns(k) => \E n \in 1..Len(pending) : k \in {fileKeys[n], todoKeys[n]}
       ]_vars
  /\ [](\A n \in 1..Len(pending) :
          (pc = "loop" /\ i = Len(pending) + 1) =>
            ~Truthy(cache, fileKeys[n]) /\ ~Truthy(cache, todoKeys[n]))

\* C28 (amended): no step removes a key, from the in-memory map or from the
\* cache file; a value is assigned only by applying a part, under the two
\* keys of the pending match it answers, or by the backfill of a hit, under a
\* file-scoped key that had no entry and with the text of the global key; a
\* match is made pending only when the lookup of its keys gives no text.
C28_AssignedByApplyOrBackfill ==
  /\ [][/\ SameFile =>
             /\ DOMAIN cache \subseteq DOMAIN cache'
             /\ \A k \in DOMAIN cache' :
                  Assigns(k) =>
                    \/ /\ pc = "apply" /\ j <= Len(pending) /\ cfg.cache
                       /\ k \in {fileKeys[j], todoKeys[j]}
                       /\ cache'[k] = TrimText(parts[j])
                    \/ /\ pc = "loop" /\ i <= Len(sorted) /\ cfg.cache
                       /\ k = cacheKey(Path, sorted[i].raw)
                       /\ ~Has(cache, k)
                       /\ Truthy(cache, todoKey(sorted[i].raw))
                       /\ cache'[k] = cache[todoKey(sorted[i].raw)]
                       /\ pending' = pending
        /\ DOMAIN readCache(cacheFile) \subseteq DOMAIN readCache(cacheFile')
        /\ (pc = "loop" /\ Len(pending') = Len(pending) + 1) =>
             Misses(cache, fileKeys'[Len(pending')], todoKeys'[Len(pending')])
       ]_vars
C28_Witness ==
  /\ pc = "apply" /\ j = 3 /\ Len(pending) = 2 /\ cfg.cache
  /\ fileKeys[1] = fileKeys[2]
  /\ cache[fileKeys[1]] = OtherPart
  /\ parts[1] = BriefPart

\* The second pass of a paired run has ended, and the environment treated
\* it as it treated the dry pass: the completion call ended the same way
\* (the answer text is the same in both passes, svc being kept), the clock
\* stopped the loop at the same match, the file system failed the same way.
SameResponses ==
  /\ run = 2 /\ pc \in {"return", "throw"} /\ report # <<>>
  /\ batch = report[1].batch /\ i = report[1].i /\ err = report[1].err

\* C29: a dry pass and a real pass of processFile on the same file,
\* configuration, cache file and completion responses make the same lookups
\* and the same completion call, end with the same cache map, persist the
\* same cache file and return the same result; the dry pass neither writes
\* nor formats the file.
C29_DryRunOnlySkipsWrite ==
  SameResponses =>
    LET dry == report[1]
    IN /\ sorted = dry.sorted /\ pending = dry.pending
       /\ fileKeys = dry.fileKeys /\ todoKeys = dry.todoKeys
       /\ contexts = dry.contexts
       /\ prompt = dry.prompt /\ calls = dry.calls
       /\ text = dry.text
       /\ cache = dry.cache
       /\ cacheFile = dry.cacheFile /\ persisted = dry.persisted
       /\ (pc = "return") = dry.returned
       /\ result = dry.result
       /\ ~dry.wrote /\ ~dry.formatted
       /\ err # "read" => dry.onDisk = content
       /\ pc = "return" => /\ wrote = (text # content)
                           /\ formatted = (text # content /\ cfg.format)
                           /\ disk[Path] = text
C29_Witness ==
  /\ SameResponses /\ pc = "return"
  /\ wrote /\ formatted /\ disk[Path] # content
  /\ report[1].result.changed = 1 /\ report[1].onDisk = content
  /\ calls = 1 /\ batch = "applied"
  /\ Len(pending) < Len(sorted)
  /\ persisted /\ cacheFile # obj

\* C30: with cfg.cache false the cache file stays as it was found, nothing is
\* read from it into the cache map, which stays empty, and every match the
\* loop has visited is in the pending batch, in the order visited, whatever
\* the cache file holds.
C30_NoCacheNoFileAccess ==
  ~cfg.cache =>
    /\ cacheFile = obj /\ ~persisted
    /\ cache = EmptyMap
    /\ lastRepl.kind # "cache"
    /\ pc \in {"loop", "batch", "llm", "sleep", "split", "apply", "persist"} =>
         /\ pending = SubSeq(sorted, 1, i - 1)
         /\ fileKeys = [n \in 1..Len(pending) |-> cacheKey(Path, pending[n].raw)]
         /\ todoKeys = [n \in 1..Len(pending) |-> todoKey(pending[n].raw)]
C30_Witness ==
  /\ ~cfg.cache /\ pc = "return" /\ run = 1
  /\ Truthy(readCache(cacheFile), todoKey(<< TodoHash >>))
  /\ \E n \in 1..Len(pending) : pending[n].raw = << TodoHash >>
  /\ Len(pending) = 2 /\ batch = "applied"
  /\ result.changed = 1

====
